---- MODULE Spec2Model ----
(***************************************************************************)
(* Model of the gravitas backend's index derivation pipeline:              *)
(*   api/routes/imagery.py          process_imagery                        *)
(*   lib/earth_engine/client.py     get_ee_instance                        *)
(*   lib/earth_engine/imagery.py    mask_clouds, get_median_composite      *)
(*   lib/earth_engine/calculations.py  the index chain and its statistics  *)
(*   lib/earth_engine/visualization.py the layer assembler                 *)
(* Earth Engine is an external service: each of its blocking calls         *)
(* (Initialize, getInfo, getMapId) is a step whose outcome is chosen       *)
(* nondeterministically among the outcomes the service can produce.        *)
(***************************************************************************)
EXTENDS Integers, Sequences, FiniteSets

(***************************************************************************)
(* Bounds of the model.                                                    *)
(***************************************************************************)
\* dates are day numbers 1..MaxDate
MaxDate == 2
\* the largest image count the filtered collection is given
MaxCount == 2
\* QA_PIXEL values range over 0 .. 2^QABits - 1
QABits == 10
\* raw optical band values (digital numbers) are sampled every DNStep, from
\* DNStep to DNSteps * DNStep, and at the two ends 1 and MaxDN of their range
DNStep == 1000
DNSteps == 12
MaxDN == 65535

(***************************************************************************)
(* Program constants (config/constants.py).                                *)
(***************************************************************************)
MAX_PIXELS == 1000000000
CLOUD_SHADOW_BIT_MASK == 8
CLOUDS_BIT_MASK == 32

\* the registry: two of the ten cities stand for all (their boxes are alike)
CITIES == {"San Francisco", "Belgrade"}
\* pixels of a registry bounding box at SCALE = 30 m: 0.2 x 0.2 degrees,
\* about 4 * 10^5 pixels, far below MAX_PIXELS
CityPixels(city) == IF city = "San Francisco" THEN 434000 ELSE 390000

\* the four index names, in the order create_all_layers walks them
LayerOrder == <<"ndvi", "lst", "uhi", "utfvi">>
IndexNames == {LayerOrder[i] : i \in 1..Len(LayerOrder)}
Reducers == {"min", "max", "mean", "stdDev"}

(***************************************************************************)
(* Values.  Python's None, and the optional values of the code.            *)
(***************************************************************************)
None == [tag |-> "None"]
Some(v) == [tag |-> "Some", v |-> v]
\* a local variable that has not been assigned yet
Unset == [tag |-> "Unset"]

\* an error dict {"error": ..., "detail": ...}; a detail is a sequence of
\* string pieces (an f-string is its pieces, str(e) is the one piece e)
ErrorDict(kind, detail) == [tag |-> "Some", error |-> kind, detail |-> detail]

\* the diagnostics an engine fault can carry (str(e))
Diags == {"timeout", "quota exceeded"}
TooManyPixels == "Too many pixels in the region"

(***************************************************************************)
(* The external engine.                                                    *)
(***************************************************************************)
\* an image handle: wellFormed is FALSE when the expression graph was built
\* with a missing (None) argument; pix is the set of values of its valid
\* pixels inside the AOI where the model follows them (NDVI), valid says
\* whether any pixel of the AOI is valid
Image(band, wellFormed, pix, valid) ==
    [tag |-> "Some", band |-> band, wellFormed |-> wellFormed, pix |-> pix, valid |-> valid]

NdviValues == {-1, 0, 1}
LstMeans == {20, 30}
LstStds == {0, 3}

RECURSIVE SetMin(_)
SetMin(S) == LET x == CHOOSE y \in S : TRUE
             IN IF S = {x} THEN x
                ELSE LET m == SetMin(S \ {x}) IN IF x < m THEN x ELSE m
RECURSIVE SetMax(_)
SetMax(S) == LET x == CHOOSE y \in S : TRUE
             IN IF S = {x} THEN x
                ELSE LET m == SetMax(S \ {x}) IN IF x > m THEN x ELSE m

\* the scalars a reducer can yield over an image with valid pixels
ReducerValues(image, reducer) ==
    CASE reducer = "min" -> {SetMin(image.pix)}
      [] reducer = "max" -> {SetMax(image.pix)}
      [] reducer = "mean" -> LstMeans
      [] reducer = "stdDev" -> LstStds

\* image.reduceRegion(reducer, geometry=aoi, scale, maxPixels[, bestEffort])
\*   .values().get(0).getInfo(): the outcomes the engine can produce.
\* An outcome is a fault (the Python client raises EEException(diag)) or a
\* returned value: a scalar, or None when no pixel of the region is valid.
\* A region of more than maxPixels pixels is an error unless bestEffort is
\* set, in which case the engine reduces a coarser, truncated sample.
ReduceRegion(image, aoi, reducer, maxPixels, bestEffort) ==
    LET faults == {[kind |-> "fault", cause |-> "engine", diag |-> d,
                    value |-> None, truncated |-> FALSE] : d \in Diags}
        budget == {[kind |-> "fault", cause |-> "budget", diag |-> TooManyPixels,
                    value |-> None, truncated |-> FALSE]}
        over == aoi.pixels > maxPixels
        returns == IF image.valid
                   THEN {[kind |-> "return", cause |-> "none", diag |-> "",
                          value |-> Some(v), truncated |-> over]
                            : v \in ReducerValues(image, reducer)}
                   ELSE {[kind |-> "return", cause |-> "none", diag |-> "",
                          value |-> None, truncated |-> over]}
    IN IF ~image.wellFormed THEN faults
       ELSE IF over /\ ~bestEffort THEN budget
       ELSE faults \cup returns

\* image.getMapId(vis_params)["tile_fetcher"].url_format: a fault, or the
\* URL template the engine hands back
TileUrls == {"", "https://earthengine.googleapis.com/tiles"}
GetMapId(image, vis_params) ==
    {[kind |-> "fault", url |-> "", diag |-> d] : d \in Diags}
    \cup {[kind |-> "return", url |-> u, diag |-> ""] : u \in TileUrls}

(***************************************************************************)
(* State.                                                                  *)
(***************************************************************************)
VARIABLES
    pc,            \* position of the running call
    env,           \* the process environment (credentials configuration)
    request,       \* ProcessImageryRequest: city, start_date, end_date
    aoi,           \* the area of interest handed to the engine
    count,         \* get_median_composite's collection size
    median_image,  \* get_median_composite's image
    img,           \* process_all_indices' images: ndvi, fv, em, lst, uhi, utfvi
    stat,          \* process_all_indices' scalars: ndvi_min, ndvi_max, lst_mean, lst_std
    results,       \* process_all_indices' returned dict
    error,         \* the error dict last returned to the caller
    indices,       \* the mapping handed to create_all_layers
    layers,        \* create_all_layers' dict under construction
    idx,           \* create_all_layers' loop position in LayerOrder
    layers_ret,    \* create_all_layers' returned layers
    outcome,       \* what process_imagery hands to its caller
    calls,         \* history: the engine operations issued, in order
    faults,        \* history: the faults met, in order
    callsAtFault,  \* history: Len(calls) when the first fault was met, -1 before
    qa,            \* mask_clouds: the QA_PIXEL value of the image's pixel
    pixel,         \* mask_clouds: the pixel of the image, band by band
    masked,        \* mask_clouds: the same pixel of the returned image
    scaled,        \* apply_scale_factors: the pixel of the returned image
    nd             \* calculate_ndvi: the pixel of the NDVI band

vars == <<pc, env, request, aoi, count, median_image, img, stat, results, error, indices,
          layers, idx, layers_ret, outcome, calls, faults, callsAtFault, qa, pixel, masked,
          scaled, nd>>

\* the variables of the per-pixel functions
maskVars == <<qa, pixel, masked, scaled, nd>>
chainVars == <<img, stat, results>>
compositeVars == <<count, median_image>>
layerVars == <<indices, layers, idx, layers_ret>>
boundaryVars == <<env, request, outcome>>

ImageNames == {"ndvi", "fv", "em", "lst", "uhi", "utfvi"}
StatNames == {"ndvi_min", "ndvi_max", "lst_mean", "lst_std"}

NoOutcome == [type |-> "none"]
\* raise HTTPException(status_code, detail): FastAPI answers with the status
\* and the body {"detail": detail}
HTTPException(status_code, detail) ==
    [type |-> "HTTPException", status_code |-> status_code, detail |-> detail]
\* the JSON body FastAPI sends for a raised HTTPException
ResponseBody(o) == [detail |-> o.detail]
\* an exception no handler of the pipeline catches
Uncaught(exc) == [type |-> "exception", exc |-> exc]

\* history: the first fault fixes the number of engine calls issued so far
NoteFault(f) ==
    /\ faults' = Append(faults, f)
    /\ callsAtFault' = IF callsAtFault < 0 THEN Len(calls') ELSE callsAtFault

NoFault == UNCHANGED <<faults, callsAtFault>>

Call(op, arg) == calls' = Append(calls, <<op, arg>>)

\* date.isoformat(): the text of the date
IsoFormat(d) == <<"iso", d>>

(***************************************************************************)
(* client.py                                                               *)
(***************************************************************************)
\* initialize_earth_engine: None, or the error dict of a failed ee.Initialize
InitializeEarthEngine(e, result) ==
    IF result.kind = "return" THEN None
    ELSE IF e.service_account
         THEN ErrorDict("Failed to initialize Earth Engine", <<result.diag>>)
         ELSE ErrorDict("Failed to initialize Earth Engine",
                        <<"Authentication failed. Run 'earthengine authenticate' first. Error: ",
                          result.diag>>)

\* ee.Initialize(...): succeeds or raises
EeInitialize == {[kind |-> "return", diag |-> ""]} \cup {[kind |-> "fault", diag |-> d] : d \in Diags}

(***************************************************************************)
(* routes/imagery.py: process_imagery, up to the composite                 *)
(***************************************************************************)
PiValidateCity ==
    /\ pc = "pi_city"
    /\ IF request.city \notin CITIES
       THEN /\ outcome' = HTTPException(400, <<"City not found", request.city>>)
            /\ pc' = "done"
       ELSE /\ pc' = "pi_dates"
            /\ UNCHANGED outcome
    /\ UNCHANGED <<env, request, aoi, compositeVars, chainVars, error, layerVars,
                   calls, faults, callsAtFault, maskVars>>

\* faulty variant: `start_date > end_date`, an empty window passes
PiValidateDatesStrictlyAfter ==
    /\ pc = "pi_dates"
    /\ IF request.start_date > request.end_date
       THEN /\ outcome' = HTTPException(400, <<"start_date must be before end_date">>)
            /\ pc' = "done"
       ELSE /\ pc' = "pi_init"
            /\ UNCHANGED outcome
    /\ UNCHANGED <<env, request, aoi, compositeVars, chainVars, error, layerVars,
                   calls, faults, callsAtFault, maskVars>>

PiValidateDates ==
    /\ pc = "pi_dates"
    /\ IF request.start_date >= request.end_date
       THEN /\ outcome' = HTTPException(400, <<"start_date must be before end_date">>)
            /\ pc' = "done"
       ELSE /\ pc' = "pi_init"
            /\ UNCHANGED outcome
    /\ UNCHANGED <<env, request, aoi, compositeVars, chainVars, error, layerVars,
                   calls, faults, callsAtFault, maskVars>>

\* get_ee_instance(), then the AOI polygon of the city's bounding box
PiInitEE ==
    /\ pc = "pi_init"
    /\ \E r \in EeInitialize :
         /\ Call("ee.Initialize", "")
         /\ error' = InitializeEarthEngine(env, r)
         /\ IF error' # None
            THEN /\ outcome' = HTTPException(500, error'.detail)
                 /\ NoteFault([stage |-> "init", what |-> "", cause |-> "engine", diag |-> r.diag])
                 /\ pc' = "done"
                 /\ UNCHANGED aoi
            ELSE /\ aoi' = [city |-> request.city, pixels |-> CityPixels(request.city)]
                 /\ pc' = "gmc_size"
                 /\ NoFault
                 /\ UNCHANGED outcome
    /\ UNCHANGED <<env, request, compositeVars, chainVars, layerVars, maskVars>>

(***************************************************************************)
(* imagery.py: get_median_composite                                        *)
(***************************************************************************)
\* collection.size().getInfo() on the filtered, scaled, masked collection
CollectionSize == {[kind |-> "fault", diag |-> d, count |-> 0] : d \in Diags}
                  \cup {[kind |-> "return", diag |-> "", count |-> n] : n \in 0..MaxCount}

\* the composite: the NDVI values of its valid pixels in the AOI, and whether
\* its thermal band has a valid pixel there
Composites == {Image("composite", TRUE, p, t) : p \in SUBSET NdviValues, t \in BOOLEAN}

\* faulty variant: the emptiness test never succeeds
IsEmptyCollectionNever(n) == n < 0

\* `if count == 0`
IsEmptyCollection(n) == n = 0

\* lines 70-87: build the collection, ask for its size, fail on an empty one
GmcSize ==
    /\ pc = "gmc_size"
    /\ \E r \in CollectionSize :
         /\ Call("size.getInfo", "")
         /\ count' = IF r.kind = "fault" THEN Unset ELSE Some(r.count)
         /\ IF r.kind = "fault"
            THEN /\ median_image' = None
                 /\ error' = ErrorDict("Failed to process imagery", <<r.diag>>)
                 /\ NoteFault([stage |-> "composite", what |-> "", cause |-> "engine", diag |-> r.diag])
                 /\ pc' = "gmc_return"
            ELSE IF IsEmptyCollection(r.count)
            THEN /\ median_image' = None
                 /\ error' = ErrorDict("No imagery found",
                        <<"No Landsat 8 images found for the specified date range and location">>)
                 /\ NoteFault([stage |-> "composite", what |-> "empty", cause |-> "none", diag |-> ""])
                 /\ pc' = "gmc_return"
            ELSE /\ pc' = "gmc_median"
                 /\ NoFault
                 /\ UNCHANGED <<median_image, error>>
    /\ UNCHANGED <<aoi, chainVars, layerVars, boundaryVars, maskVars>>

\* lines 89-92: collection.median()
GmcMedian ==
    /\ pc = "gmc_median"
    /\ \E c \in Composites : median_image' = c
    /\ Call("median", "")
    /\ error' = None
    /\ pc' = "gmc_return"
    /\ NoFault
    /\ UNCHANGED <<aoi, count, chainVars, layerVars, boundaryVars, maskVars>>

\* process_imagery lines 64-66
PiAfterComposite ==
    /\ pc = "gmc_return"
    /\ IF error # None
       THEN /\ outcome' = HTTPException(500, error.detail)
            /\ pc' = "done"
       ELSE /\ pc' = "pai_ndvi"
            /\ UNCHANGED outcome
    /\ UNCHANGED <<env, request, aoi, compositeVars, chainVars, error, layerVars,
                   calls, faults, callsAtFault, maskVars>>

(***************************************************************************)
(* calculations.py: process_all_indices and the functions it calls         *)
(***************************************************************************)
\* faulty variant: FV, EM and LST are built before the NDVI statistics are asked for
PaiOrderFvFirst == <<"pai_ndvi", "pai_fv", "pai_em", "pai_lst", "cns_min", "cns_max",
                     "cls_mean", "cls_std", "pai_uhi", "pai_utfvi", "pai_results">>

\* the statements of process_all_indices (lines 221-258) in program order;
\* the two reductions of each statistics function are statements of their own
PaiOrder == <<"pai_ndvi", "cns_min", "cns_max", "pai_fv", "pai_em", "pai_lst",
              "cls_mean", "cls_std", "pai_uhi", "pai_utfvi", "pai_results">>

\* the statement that follows `label`
After(label) ==
    LET i == CHOOSE k \in 1..Len(PaiOrder) : PaiOrder[k] = label
    IN PaiOrder[i + 1]

\* faulty variant: the NDVI except clause carries the LST function's kind
NdviStatsErrorAsLst(e) == ErrorDict("Failed to calculate LST statistics", <<e>>)

\* calculate_ndvi_stats' except clause
NdviStatsError(e) == ErrorDict("Failed to calculate NDVI statistics", <<e>>)
\* calculate_lst_stats' except clause
LstStatsError(e) == ErrorDict("Failed to calculate LST statistics", <<e>>)

\* faulty variant: the NDVI reductions pass bestEffort=True
NdviReduceBestEffort(image, region, reducer) ==
    ReduceRegion(image, region, reducer, MAX_PIXELS, TRUE)

\* the reduceRegion calls of the two statistics functions: scale=SCALE,
\* maxPixels=MAX_PIXELS, and no bestEffort argument
NdviReduce(image, region, reducer) == ReduceRegion(image, region, reducer, MAX_PIXELS, FALSE)
LstReduce(image, region, reducer) == ReduceRegion(image, region, reducer, MAX_PIXELS, FALSE)

IsNumber(x) == x.tag = "Some"

\* ee.Number(x): a client-side constructor.  Given None it either raises
\* EEException or builds a node with a missing argument; which one is the
\* client library's choice
EeNumber(x) == IF IsNumber(x) THEN {"number"} ELSE {"raise", "missing"}

FV_POWER == 2
\* 0.004 and 0.986, kept as fractions
EM_MULTIPLIER == [num |-> 4, den |-> 1000]
EM_OFFSET == [num |-> 986, den |-> 1000]

\* pixel values that are not whole numbers are fractions num/den, den > 0
Frac(n, d) == [num |-> n, den |-> d]

\* ee.Image.divide / ee.Number.divide of a by b: the quotient, and 0 for
\* division by 0 (the engine's rule; no fault, no no-data)
Divide(a, b) == IF b = 0 THEN Frac(0, 1)
                ELSE IF b < 0 THEN Frac(-a, -b) ELSE Frac(a, b)

\* ee.Image.pow(n), n a natural number
RECURSIVE Pow(_, _)
Pow(q, n) == IF n = 0 THEN Frac(1, 1)
             ELSE LET r == Pow(q, n - 1) IN Frac(q.num * r.num, q.den * r.den)

\* lines 79-84 on the values of the valid NDVI pixels:
\* ((v - ndvi_min) / (ndvi_max - ndvi_min)) ^ FV_POWER
FvPixels(pix, ndvi_min, ndvi_max) ==
    {Pow(Divide(v - ndvi_min, ndvi_max - ndvi_min), FV_POWER) : v \in pix}

\* calculate_fractional_vegetation, once ee.Number(ndvi_max) has not raised:
\* the graph is well formed only if both scalars are numbers
calculate_fractional_vegetation(ndvi, ndvi_min, ndvi_max) ==
    IF ndvi.tag = "Some" /\ ndvi.wellFormed /\ IsNumber(ndvi_min) /\ IsNumber(ndvi_max)
    THEN LET p == FvPixels(ndvi.pix, ndvi_min.v, ndvi_max.v)
         IN Image("FV", TRUE, p, p # {})
    ELSE Image("FV", FALSE, {}, FALSE)

\* calculate_emissivity: fv * EM_MULTIPLIER + EM_OFFSET at every valid pixel
calculate_emissivity(fv) ==
    LET p == {Frac(EM_MULTIPLIER.num * f.num * EM_OFFSET.den
                     + EM_OFFSET.num * EM_MULTIPLIER.den * f.den,
                   EM_MULTIPLIER.den * f.den * EM_OFFSET.den) : f \in fv.pix}
    IN Image("EM", fv.wellFormed, p, p # {})

\* calculate_ndvi: image.normalizedDifference(["SR_B5", "SR_B4"]).rename("NDVI")
PaiNdvi ==
    /\ pc = "pai_ndvi"
    /\ img' = [img EXCEPT !["ndvi"] =
                 Image("NDVI", median_image.wellFormed, median_image.pix,
                       median_image.pix # {})]
    /\ Call("normalizedDifference", "")
    /\ pc' = After("pai_ndvi")
    /\ NoFault
    /\ UNCHANGED <<aoi, compositeVars, stat, results, error, layerVars, boundaryVars, maskVars>>

\* one reduction of a statistics function, with the engine's outcome r: on
\* a fault the except clause returns (None, error dict) to
\* process_all_indices, which returns it to its caller
StatsStep(label, reducer, name, r, errorOf, stage) ==
    /\ Call("reduceRegion", reducer)
    /\ IF r.kind = "fault"
       THEN /\ results' = None
            /\ error' = errorOf
            /\ NoteFault([stage |-> stage, what |-> reducer, cause |-> r.cause, diag |-> r.diag])
            /\ pc' = "pai_return"
            /\ UNCHANGED stat
       ELSE /\ stat' = [stat EXCEPT ![name] = r.value]
            /\ pc' = After(label)
            /\ NoFault
            /\ UNCHANGED <<results, error>>
    /\ UNCHANGED <<aoi, compositeVars, img, layerVars, boundaryVars, maskVars>>

\* calculate_ndvi_stats lines 47-50
CnsMin ==
    /\ pc = "cns_min"
    /\ \E r \in NdviReduce(img["ndvi"], aoi, "min") :
         StatsStep("cns_min", "min", "ndvi_min", r, NdviStatsError(r.diag), "ndvi_stats")

\* calculate_ndvi_stats lines 52-57
CnsMax ==
    /\ pc = "cns_max"
    /\ \E r \in NdviReduce(img["ndvi"], aoi, "max") :
         StatsStep("cns_max", "max", "ndvi_max", r, NdviStatsError(r.diag), "ndvi_stats")

\* calculate_fractional_vegetation: ndvi.subtract(ndvi_min)
\*   .divide(ee.Number(ndvi_max).subtract(ndvi_min)).pow(...).rename("FV")
PaiFv ==
    /\ pc = "pai_fv"
    /\ \E n \in EeNumber(stat["ndvi_max"]) :
         IF n = "raise"
         THEN /\ outcome' = Uncaught("EEException")
              /\ pc' = "done"
              /\ UNCHANGED calls
              /\ NoteFault([stage |-> "fv", what |-> "ndvi_max", cause |-> "none", diag |-> ""])
              /\ UNCHANGED img
         ELSE /\ img' = [img EXCEPT !["fv"] =
                           calculate_fractional_vegetation(img["ndvi"], stat["ndvi_min"],
                                                           stat["ndvi_max"])]
              /\ Call("fv", "")
              /\ pc' = After("pai_fv")
              /\ NoFault
              /\ UNCHANGED outcome
    /\ UNCHANGED <<env, request, aoi, compositeVars, stat, results, error, layerVars, maskVars>>

\* calculate_emissivity: fv.multiply(EM_MULTIPLIER).add(EM_OFFSET).rename("EM")
PaiEm ==
    /\ pc = "pai_em"
    /\ img' = [img EXCEPT !["em"] = calculate_emissivity(img["fv"])]
    /\ Call("em", "")
    /\ pc' = After("pai_em")
    /\ NoFault
    /\ UNCHANGED <<aoi, compositeVars, stat, results, error, layerVars, boundaryVars, maskVars>>

\* calculate_lst: the expression over ST_B10 and EM
PaiLst ==
    /\ pc = "pai_lst"
    /\ img' = [img EXCEPT !["lst"] =
                 Image("LST", img["em"].wellFormed /\ median_image.wellFormed, {},
                       img["em"].valid /\ median_image.valid)]
    /\ Call("lst", "")
    /\ pc' = After("pai_lst")
    /\ NoFault
    /\ UNCHANGED <<aoi, compositeVars, stat, results, error, layerVars, boundaryVars, maskVars>>

\* calculate_lst_stats lines 147-150
ClsMean ==
    /\ pc = "cls_mean"
    /\ \E r \in LstReduce(img["lst"], aoi, "mean") :
         StatsStep("cls_mean", "mean", "lst_mean", r, LstStatsError(r.diag), "lst_stats")

\* calculate_lst_stats lines 152-157
ClsStd ==
    /\ pc = "cls_std"
    /\ \E r \in LstReduce(img["lst"], aoi, "stdDev") :
         StatsStep("cls_std", "stdDev", "lst_std", r, LstStatsError(r.diag), "lst_stats")

\* calculate_uhi: lst.subtract(lst_mean).divide(lst_std).rename("UHI")
PaiUhi ==
    /\ pc = "pai_uhi"
    /\ img' = [img EXCEPT !["uhi"] =
                 Image("UHI", /\ img["lst"].tag = "Some"
                              /\ img["lst"].wellFormed
                              /\ IsNumber(stat["lst_mean"])
                              /\ IsNumber(stat["lst_std"]),
                       {}, img["lst"].tag = "Some" /\ img["lst"].valid)]
    /\ Call("uhi", "")
    /\ pc' = After("pai_uhi")
    /\ NoFault
    /\ UNCHANGED <<aoi, compositeVars, stat, results, error, layerVars, boundaryVars, maskVars>>

\* calculate_utfvi: lst.subtract(lst_mean).divide(lst).rename("UTFVI")
PaiUtfvi ==
    /\ pc = "pai_utfvi"
    /\ img' = [img EXCEPT !["utfvi"] =
                 Image("UTFVI", /\ img["lst"].tag = "Some"
                                /\ img["lst"].wellFormed
                                /\ IsNumber(stat["lst_mean"]),
                       {}, img["lst"].tag = "Some" /\ img["lst"].valid)]
    /\ Call("utfvi", "")
    /\ pc' = After("pai_utfvi")
    /\ NoFault
    /\ UNCHANGED <<aoi, compositeVars, stat, results, error, layerVars, boundaryVars, maskVars>>

\* lines 247-258: the results dict
PaiResults ==
    /\ pc = "pai_results"
    /\ results' = [tag |-> "Some",
                   ndvi |-> img["ndvi"], lst |-> img["lst"],
                   uhi |-> img["uhi"], utfvi |-> img["utfvi"],
                   lst_mean |-> stat["lst_mean"], lst_std |-> stat["lst_std"],
                   ndvi_min |-> stat["ndvi_min"], ndvi_max |-> stat["ndvi_max"]]
    /\ error' = None
    /\ pc' = "pai_return"
    /\ UNCHANGED <<aoi, compositeVars, img, stat, layerVars, boundaryVars,
                   calls, faults, callsAtFault, maskVars>>


(***************************************************************************)
(* visualization.py                                                        *)
(***************************************************************************)
NDVI_MIN == -1
NDVI_MAX == 1
LST_MIN == 7
LST_MAX == 50
UHI_MIN == -4
UHI_MAX == 4
UTFVI_MIN == -1
\* 0.3: display bounds are kept as fractions
UTFVI_MAX == [num |-> 3, den |-> 10]
Whole(n) == [num |-> n, den |-> 1]

\* a palette is named by its constant
VisParams(min, max, palette) == [tag |-> "Some", min |-> min, max |-> max, palette |-> palette]
EmptyDict == [tag |-> "Empty"]

\* faulty variant: the NDVI layer is stretched to the request's own NDVI range
get_visualization_params_stretched(layer_type) ==
    CASE layer_type = "ndvi" ->
           VisParams(Whole(IF IsNumber(stat["ndvi_min"]) THEN stat["ndvi_min"].v ELSE NDVI_MIN),
                     Whole(IF IsNumber(stat["ndvi_max"]) THEN stat["ndvi_max"].v ELSE NDVI_MAX),
                     "NDVI_PALETTE")
      [] layer_type = "lst" -> VisParams(Whole(LST_MIN), Whole(LST_MAX), "LST_PALETTE")
      [] layer_type = "uhi" -> VisParams(Whole(UHI_MIN), Whole(UHI_MAX), "UHI_PALETTE")
      [] layer_type = "utfvi" -> VisParams(Whole(UTFVI_MIN), UTFVI_MAX, "UTFVI_PALETTE")
      [] OTHER -> EmptyDict

get_visualization_params(layer_type) ==
    CASE layer_type = "ndvi" -> VisParams(Whole(NDVI_MIN), Whole(NDVI_MAX), "NDVI_PALETTE")
      [] layer_type = "lst" -> VisParams(Whole(LST_MIN), Whole(LST_MAX), "LST_PALETTE")
      [] layer_type = "uhi" -> VisParams(Whole(UHI_MIN), Whole(UHI_MAX), "UHI_PALETTE")
      [] layer_type = "utfvi" -> VisParams(Whole(UTFVI_MIN), UTFVI_MAX, "UTFVI_PALETTE")
      [] OTHER -> EmptyDict

get_layer_descriptions ==
    [ndvi |-> <<"NDVI",
                "Vegetation health and density. Higher values (green) indicate healthier vegetation.">>,
     lst |-> <<"Land Surface Temperature",
               "Surface temperature in degrees Celsius. Cooler areas are blue, warmer areas are red.">>,
     uhi |-> <<"Urban Heat Index",
               "Relative heat concentration compared to city average. Shows urban heat island effects.">>,
     utfvi |-> <<"Urban Thermal Field Variance Index",
                 "Temperature comfort level classification for urban areas.">>]

\* generate_tile_url, given the engine's answer r to getMapId: the URL, or
\* None when the call raised (the exception is dropped)
generate_tile_url(r) == IF r.kind = "fault" THEN None ELSE Some(r.url)

\* faulty variant: `tile_url is None` instead of `not tile_url`
TileUrlIsNone(tile_url) == tile_url = None

\* Python's `not tile_url` for a str | None
NotTileUrl(tile_url) == tile_url = None \/ tile_url.v = ""

LayerData(tile_url, vis_params, name, description) ==
    [tile_url |-> tile_url,
     visualization |-> [min |-> vis_params.min, max |-> vis_params.max,
                        palette |-> vis_params.palette],
     name |-> name, description |-> description]

\* create_layer_data, given the engine's answer r to getMapId:
\* the pair (layer_data, error)
create_layer_data(layer_type, r) ==
    LET vis_params == get_visualization_params(layer_type)
        tile_url == generate_tile_url(r)
    IN IF vis_params = EmptyDict
       THEN [data |-> None,
             error |-> ErrorDict("Invalid layer type", <<"Unknown layer: ", layer_type>>)]
       ELSE IF NotTileUrl(tile_url)
       THEN [data |-> None,
             error |-> ErrorDict("Failed to generate tile URL",
                                 <<"Could not create tiles for ", layer_type>>)]
       ELSE [data |-> Some(LayerData(tile_url.v, vis_params,
                                     get_layer_descriptions[layer_type][1],
                                     get_layer_descriptions[layer_type][2])),
             error |-> None]

\* faulty variant: the error names the first index, whichever is absent
MissingIndexErrorFirst(layer_type) ==
    ErrorDict("Missing index", <<"Index '", LayerOrder[1], "' not found in results">>)

\* create_all_layers' error for an index absent from the mapping
MissingIndexError(layer_type) ==
    ErrorDict("Missing index", <<"Index '", layer_type, "' not found in results">>)

\* dict[k] = v
Put(d, k, v) == [n \in DOMAIN d \cup {k} |-> IF n = k THEN v ELSE d[n]]
EmptyMap == [n \in {} |-> None]

\* create_all_layers: one turn of the loop over LayerOrder, or the return
\* after the last turn
CalTurn ==
    /\ pc = "cal_loop"
    /\ IF idx > Len(LayerOrder)
       THEN /\ layers_ret' = [tag |-> "Some", map |-> layers]
            /\ error' = None
            /\ pc' = "cal_return"
            /\ UNCHANGED <<layers, idx, calls, faults, callsAtFault>>
       ELSE LET layer_type == LayerOrder[idx] IN
            IF layer_type \notin DOMAIN indices
            THEN /\ layers_ret' = None
                 /\ error' = MissingIndexError(layer_type)
                 /\ pc' = "cal_return"
                 /\ UNCHANGED calls
                 /\ NoteFault([stage |-> "layers", what |-> layer_type, cause |-> "missing", diag |-> ""])
                 /\ UNCHANGED <<layers, idx>>
            ELSE \E r \in GetMapId(indices[layer_type], get_visualization_params(layer_type)) :
                 LET res == create_layer_data(layer_type, r) IN
                 /\ Call("getMapId", layer_type)
                 /\ IF res.error # None
                    THEN /\ layers_ret' = None
                         /\ error' = res.error
                         /\ pc' = "cal_return"
                         /\ NoteFault([stage |-> "tile", what |-> layer_type,
                                       cause |-> IF r.kind = "fault" THEN "engine" ELSE "empty",
                                       diag |-> r.diag])
                         /\ UNCHANGED <<layers, idx>>
                    ELSE /\ layers' = Put(layers, layer_type, res.data.v)
                         /\ idx' = idx + 1
                         /\ pc' = "cal_loop"
                         /\ NoFault
                         /\ UNCHANGED <<layers_ret, error>>
    /\ UNCHANGED <<aoi, compositeVars, chainVars, indices, boundaryVars, maskVars>>

(***************************************************************************)
(* routes/imagery.py: process_imagery, after the composite                 *)
(***************************************************************************)
\* lines 69-80
PiAfterIndices ==
    /\ pc = "pai_return"
    /\ IF error # None
       THEN /\ outcome' = HTTPException(500, error.detail)
            /\ pc' = "done"
            /\ UNCHANGED <<indices, layers, idx>>
       ELSE /\ indices' = [n \in IndexNames |-> results[n]]
            /\ layers' = EmptyMap
            /\ idx' = 1
            /\ pc' = "cal_loop"
            /\ UNCHANGED outcome
    /\ UNCHANGED <<env, request, aoi, compositeVars, chainVars, error, layers_ret,
                   calls, faults, callsAtFault, maskVars>>

\* Statistics(...): pydantic accepts a number for a float field and raises
\* ValidationError for None
StatisticsValid(res) ==
    /\ IsNumber(res.lst_mean) /\ IsNumber(res.lst_std)
    /\ IsNumber(res.ndvi_min) /\ IsNumber(res.ndvi_max)

ProcessImageryResponse(req, lay, res) ==
    [type |-> "response",
     city |-> req.city,
     start_date |-> IsoFormat(req.start_date),
     end_date |-> IsoFormat(req.end_date),
     layers |-> lay,
     statistics |-> [lst_mean |-> res.lst_mean.v, lst_std |-> res.lst_std.v,
                     ndvi_min |-> res.ndvi_min.v, ndvi_max |-> res.ndvi_max.v]]

\* faulty variant: the error of create_all_layers is not looked at
PiAfterLayersUnchecked ==
    /\ pc = "cal_return"
    /\ UNCHANGED calls
    /\ IF ~StatisticsValid(results)
       THEN /\ outcome' = Uncaught("ValidationError")
            /\ NoteFault([stage |-> "statistics", what |-> "", cause |-> "none", diag |-> ""])
       ELSE /\ outcome' = ProcessImageryResponse(
                             request,
                             IF layers_ret = None THEN layers ELSE layers_ret.map,
                             results)
            /\ NoFault
    /\ pc' = "done"
    /\ UNCHANGED <<env, request, aoi, compositeVars, chainVars, error, layerVars, maskVars>>

\* lines 80-100
PiAfterLayers ==
    /\ pc = "cal_return"
    /\ UNCHANGED calls
    /\ IF error # None
       THEN /\ outcome' = HTTPException(500, error.detail)
            /\ NoFault
       ELSE IF ~StatisticsValid(results)
       THEN /\ outcome' = Uncaught("ValidationError")
            /\ NoteFault([stage |-> "statistics", what |-> "", cause |-> "none", diag |-> ""])
       ELSE /\ outcome' = ProcessImageryResponse(request, layers_ret.map, results)
            /\ NoFault
    /\ pc' = "done"
    /\ UNCHANGED <<env, request, aoi, compositeVars, chainVars, error, layerVars, maskVars>>

(***************************************************************************)
(* Spec: one request through process_imagery.                              *)
(***************************************************************************)
Requests == [city : CITIES \cup {"Atlantis"}, start_date : 1..MaxDate, end_date : 1..MaxDate]
Envs == [service_account : BOOLEAN]

NoImages == [n \in ImageNames |-> Unset]
NoStats == [n \in StatNames |-> Unset]
NoPixel == [n \in {} |-> None]

\* the locals of a call that has not started
NoAoi == [city |-> "", pixels |-> 0]

IdleChain ==
    /\ img = NoImages
    /\ stat = NoStats
    /\ results = Unset
    /\ error = None
    /\ layers_ret = Unset
    /\ outcome = NoOutcome
    /\ calls = <<>>
    /\ faults = <<>>
    /\ callsAtFault = -1

IdleMask ==
    /\ qa = 0
    /\ pixel = NoPixel
    /\ masked = NoPixel
    /\ scaled = NoPixel
    /\ nd = Unset

IdleLayers ==
    /\ indices = EmptyMap
    /\ layers = EmptyMap
    /\ idx = 0

Init ==
    /\ pc = "pi_city"
    /\ env \in Envs
    /\ request \in Requests
    /\ aoi = NoAoi
    /\ count = Unset
    /\ median_image = Unset
    /\ IdleChain
    /\ IdleLayers
    /\ IdleMask

Next ==
    \/ PiValidateCity
    \/ PiValidateDates
    \/ PiInitEE
    \/ GmcSize
    \/ GmcMedian
    \/ PiAfterComposite
    \/ PaiNdvi
    \/ CnsMin
    \/ CnsMax
    \/ PaiFv
    \/ PaiEm
    \/ PaiLst
    \/ ClsMean
    \/ ClsStd
    \/ PaiUhi
    \/ PaiUtfvi
    \/ PaiResults
    \/ PiAfterIndices
    \/ CalTurn
    \/ PiAfterLayers

Spec == Init /\ [][Next]_vars

(***************************************************************************)
(* SpecChain: process_all_indices called on any composite and any AOI,     *)
(* the registry's boxes and regions at and above the pixel ceiling.        *)
(***************************************************************************)
NoRequest == [city |-> "", start_date |-> 1, end_date |-> 1]
NoEnv == [service_account |-> FALSE]

Aois == {[city |-> c, pixels |-> CityPixels(c)] : c \in CITIES}
        \cup {[city |-> "", pixels |-> n] : n \in {MAX_PIXELS, MAX_PIXELS + 1}}

InitChain ==
    /\ pc = "pai_ndvi"
    /\ env = NoEnv
    /\ request = NoRequest
    /\ aoi \in Aois
    /\ count = Unset
    /\ median_image \in Composites
    /\ IdleChain
    /\ IdleLayers
    /\ IdleMask

NextChain ==
    \/ PaiNdvi
    \/ CnsMin
    \/ CnsMax
    \/ PaiFv
    \/ PaiEm
    \/ PaiLst
    \/ ClsMean
    \/ ClsStd
    \/ PaiUhi
    \/ PaiUtfvi
    \/ PaiResults

SpecChain == InitChain /\ [][NextChain]_vars

(***************************************************************************)
(* SpecLayers: create_all_layers called on any mapping from index names    *)
(* to images.                                                              *)
(***************************************************************************)
IndexMappings ==
    UNION {[S -> {Image("index", wf, {}, TRUE) : wf \in BOOLEAN}] : S \in SUBSET IndexNames}

InitLayers ==
    /\ pc = "cal_loop"
    /\ env = NoEnv
    /\ request = NoRequest
    /\ aoi = NoAoi
    /\ count = Unset
    /\ median_image = Unset
    /\ IdleChain
    /\ indices \in IndexMappings
    /\ layers = EmptyMap
    /\ idx = 1
    /\ IdleMask

NextLayers == CalTurn

SpecLayers == InitLayers /\ [][NextLayers]_vars

(***************************************************************************)
(* imagery.py: mask_clouds, on one pixel of an image.                      *)
(***************************************************************************)
Bands == {"SR_B4", "SR_B5", "ST_B10", "QA_PIXEL"}

RECURSIVE BitwiseAnd(_, _)
\* ee.Image.bitwiseAnd on non-negative integers
BitwiseAnd(a, b) ==
    IF a = 0 \/ b = 0 THEN 0
    ELSE (a % 2) * (b % 2) + 2 * BitwiseAnd(a \div 2, b \div 2)

\* ee.Image.eq: 1 where equal, else 0
Eq(a, b) == IF a = b THEN 1 ELSE 0
\* ee.Image.And: 1 where both are non-zero, else 0
And(a, b) == IF a # 0 /\ b # 0 THEN 1 ELSE 0

\* faulty variant: only the cloud shadow bit is tested
CloudMaskShadowOnly(q) == Eq(BitwiseAnd(q, CLOUD_SHADOW_BIT_MASK), 0)

\* line 51: the mask computed from the QA value
CloudMask(q) ==
    And(Eq(BitwiseAnd(q, CLOUD_SHADOW_BIT_MASK), 0), Eq(BitwiseAnd(q, CLOUDS_BIT_MASK), 0))

\* ee.Image.updateMask: every band is valid where it was valid and the mask
\* is non-zero
UpdateMask(px, m) == [b \in DOMAIN px |-> [px[b] EXCEPT !.valid = px[b].valid /\ m # 0]]

mask_clouds(px) == UpdateMask(px, CloudMask(px["QA_PIXEL"].value))

RECURSIVE Pow2(_)
Pow2(n) == IF n = 0 THEN 1 ELSE 2 * Pow2(n - 1)

\* the pixels mask_clouds is applied to: any QA value, the QA band valid,
\* every other band valid or already masked
Pixels(q) ==
    {[b \in Bands |-> IF b = "QA_PIXEL" THEN [value |-> q, valid |-> TRUE]
                      ELSE [value |-> 0, valid |-> b \in V]] : V \in SUBSET (Bands \ {"QA_PIXEL"})}

MaskClouds ==
    /\ pc = "mask_clouds"
    /\ masked' = mask_clouds(pixel)
    /\ pc' = "masked"
    /\ UNCHANGED <<env, request, aoi, compositeVars, chainVars, error, layerVars, outcome,
                   calls, faults, callsAtFault, qa, pixel, scaled, nd>>

InitMask ==
    /\ pc = "mask_clouds"
    /\ env = NoEnv
    /\ request = NoRequest
    /\ aoi = NoAoi
    /\ count = Unset
    /\ median_image = Unset
    /\ IdleChain
    /\ IdleLayers
    /\ qa \in 0..(Pow2(QABits) - 1)
    /\ pixel \in Pixels(qa)
    /\ masked = NoPixel
    /\ scaled = NoPixel
    /\ nd = Unset

NextMask == MaskClouds

SpecMask == InitMask /\ [][NextMask]_vars

(***************************************************************************)
(* imagery.py: apply_scale_factors, and calculations.py: calculate_ndvi,   *)
(* on the optical bands of one pixel.  A band value is a whole number of   *)
(* reflectance units of 1/400000 (0.0000025), in which the multiplier      *)
(* 0.0000275 is 11 and the offset -0.2 is -80000, so the arithmetic is     *)
(* exact.                                                                  *)
(***************************************************************************)
OPTICAL_BANDS_MULTIPLIER == 11
OPTICAL_BANDS_OFFSET == -80000

OpticalBands == {"SR_B4", "SR_B5"}

\* lines 26-28 and 33: every SR_B band is multiplied and offset, its mask kept
apply_scale_factors(px) ==
    [b \in DOMAIN px |->
        [px[b] EXCEPT !.value = px[b].value * OPTICAL_BANDS_MULTIPLIER + OPTICAL_BANDS_OFFSET]]

NoData == [valid |-> FALSE, value |-> Frac(0, 1)]
Data(q) == [valid |-> TRUE, value |-> q]

\* ee.Image.normalizedDifference on one pixel: the outcomes the engine can
\* produce.  The output is masked where an input is masked and where an
\* input is negative; elsewhere it is (a - b) / (a + b).  Where both inputs
\* are 0 the engine's answer is either masked or 0.
NormalizedDifference(a, b) ==
    IF ~a.valid \/ ~b.valid THEN {NoData}
    ELSE IF a.value < 0 \/ b.value < 0 THEN {NoData}
    ELSE IF a.value + b.value = 0 THEN {NoData, Data(Frac(0, 1))}
    ELSE {Data(Frac(a.value - b.value, a.value + b.value))}

\* faulty variant: the index is computed with subtract, add and divide
calculate_ndvi_by_division(px) ==
    LET a == px["SR_B5"]
        b == px["SR_B4"]
    IN IF ~a.valid \/ ~b.valid THEN {NoData}
       ELSE {Data(Divide(a.value - b.value, a.value + b.value))}

\* line 29: image.normalizedDifference(["SR_B5", "SR_B4"])
calculate_ndvi(px) == NormalizedDifference(px["SR_B5"], px["SR_B4"])

\* the raw values sampled
DNs == {k * DNStep : k \in 1..DNSteps} \cup {1, MaxDN}

\* the raw pixels: any sampled value in either band, valid or masked
RawPixels == [OpticalBands -> [value : DNs, valid : BOOLEAN]]

ApplyScaleFactors ==
    /\ pc = "apply_scale_factors"
    /\ scaled' = apply_scale_factors(pixel)
    /\ pc' = "calculate_ndvi"
    /\ UNCHANGED <<env, request, aoi, compositeVars, chainVars, error, layerVars, outcome,
                   calls, faults, callsAtFault, qa, pixel, masked, nd>>

CalculateNdvi ==
    /\ pc = "calculate_ndvi"
    /\ \E v \in calculate_ndvi(scaled) : nd' = v
    /\ pc' = "ndvi_done"
    /\ UNCHANGED <<env, request, aoi, compositeVars, chainVars, error, layerVars, outcome,
                   calls, faults, callsAtFault, qa, pixel, masked, scaled>>

InitNdvi ==
    /\ pc = "apply_scale_factors"
    /\ env = NoEnv
    /\ request = NoRequest
    /\ aoi = NoAoi
    /\ count = Unset
    /\ median_image = Unset
    /\ IdleChain
    /\ IdleLayers
    /\ qa = 0
    /\ pixel \in RawPixels
    /\ masked = NoPixel
    /\ scaled = NoPixel
    /\ nd = Unset

NextNdvi ==
    \/ ApplyScaleFactors
    \/ CalculateNdvi

SpecNdvi == InitNdvi /\ [][NextNdvi]_vars

(***************************************************************************)
(* Properties.                                                             *)
(***************************************************************************)
Ops(S) == {i \in 1..Len(calls) : calls[i][1] \in S}
Issued(op, arg) == \E i \in 1..Len(calls) : calls[i] = <<op, arg>>
Before(op, arg, i) == \E j \in 1..(i - 1) : calls[j] = <<op, arg>>

Done == pc = "done"
Failed == outcome.type \in {"HTTPException", "exception"}
Responded == outcome.type = "response"

\* C1: process_imagery ends either with a response that holds all four
\* layers and all four statistics, or with a failure that holds neither; a
\* run that met a fault ends with a failure, and no engine operation is
\* issued after the first fault.
C1_AllOrNothing ==
    /\ Done =>
         \/ /\ Responded
            /\ faults = <<>>
            /\ DOMAIN outcome.layers = IndexNames
            /\ DOMAIN outcome.statistics = StatNames
            /\ \A n \in StatNames : outcome.statistics[n] \in Int
         \/ /\ Failed
            /\ DOMAIN outcome \cap {"layers", "statistics"} = {}
    /\ callsAtFault >= 0 => Len(calls) = callsAtFault
    /\ faults # <<>> => ~Responded

\* C1 witness: the fourth tile generation faulted after three layers had
\* been built, and the request ended with a failure
C1_Witness ==
    /\ Done
    /\ Failed
    /\ faults # <<>>
    /\ faults[1].stage = "tile"
    /\ faults[1].what = "utfvi"
    /\ DOMAIN layers = {"ndvi", "lst", "uhi"}

\* C2: when the filtered collection holds no image, get_median_composite
\* returns no composite and the error 'No imagery found', and neither the
\* median reduction nor any region reduction has been issued.
C2_EmptyCollectionFailsFast ==
    (count = Some(0) /\ pc # "gmc_size") =>
        /\ median_image = None
        /\ error # None
        /\ error.error = "No imagery found"
        /\ Ops({"median", "reduceRegion"}) = {}
        /\ pc \in {"gmc_return", "done"}

\* C2 witness: get_median_composite has returned on an empty collection
C2_Witness == count = Some(0) /\ pc = "gmc_return" /\ Issued("size.getInfo", "")

\* C3: FV, EM and LST are built only after both NDVI reductions have been
\* issued and have returned, UHI and UTFVI only after both LST reductions.
C3_StatisticsBeforeUse ==
    /\ \A i \in Ops({"fv", "em", "lst"}) :
         Before("reduceRegion", "min", i) /\ Before("reduceRegion", "max", i)
    /\ \A i \in Ops({"uhi", "utfvi"}) :
         Before("reduceRegion", "mean", i) /\ Before("reduceRegion", "stdDev", i)
    /\ \A n \in {"fv", "em", "lst"} :
         img[n] # Unset => stat["ndvi_min"] # Unset /\ stat["ndvi_max"] # Unset
    /\ \A n \in {"uhi", "utfvi"} :
         img[n] # Unset => stat["lst_mean"] # Unset /\ stat["lst_std"] # Unset

\* C3 witness: the chain ran to its end, every image built
C3_Witness ==
    /\ pc = "pai_return"
    /\ results # None
    /\ \A n \in ImageNames : img[n] # Unset
    /\ \A n \in StatNames : IsNumber(stat[n])

\* the first fault is a faulting region reduction
ReductionFaulted == faults # <<>> /\ faults[1].stage \in {"ndvi_stats", "lst_stats"}

\* the error dict the code builds for a fault of `reducer` with message e
StatsErrorOf(reducer, e) ==
    IF reducer \in {"min", "max"} THEN NdviStatsError(e) ELSE LstStatsError(e)

\* the reducers whose fault can have produced the error dict err
ReducersOf(err) ==
    {r \in Reducers : \E e \in Diags \cup {TooManyPixels} : StatsErrorOf(r, e) = err}

C5_FailureReachesCallerVerbatim ==
    (Done /\ outcome.type = "HTTPException" /\ outcome.status_code = 500) =>
        /\ ResponseBody(outcome) = [error |-> error.error, detail |-> error.detail]
        /\ faults[1].cause \in {"engine", "budget"} =>
             \E i \in 1..Len(outcome.detail) : outcome.detail[i] = faults[1].diag

\* C6 as stated: a failing run ends with a tagged error, never with an
\* exception that no handler of the pipeline has turned into one.
C6_NoBareException ==
    (Done /\ faults # <<>>) => outcome.type = "HTTPException"

OverBudget == aoi.pixels > MAX_PIXELS
GenericStatisticsKinds == {StatsErrorOf(r, e).error : r \in Reducers, e \in Diags}

Complete == DOMAIN indices = IndexNames
Returned == pc = "cal_return"
TileError(n) == ErrorDict("Failed to generate tile URL", <<"Could not create tiles for ", n>>)
FourLayers ==
    /\ layers_ret # None
    /\ DOMAIN layers_ret.map = IndexNames
    /\ \A n \in IndexNames : layers_ret.map[n].tile_url # ""

\* C8 as stated: create_all_layers on a mapping that holds all four index
\* names always returns four layer descriptors, each with a non-empty tile
\* reference.
C8_AlwaysFourLayers == (Complete /\ Returned) => FourLayers

\* C8 amended: create_all_layers on a mapping that holds all four index
\* names returns either four layer descriptors, one per index name, each
\* with a non-empty tile reference, or no layer and the tile generation
\* failure of the first index whose tile reference could not be had.
C8_FourLayersOrTileFailure ==
    (Complete /\ Returned) =>
        \/ /\ error = None
           /\ FourLayers
           /\ faults = <<>>
        \/ /\ layers_ret = None
           /\ faults # <<>>
           /\ faults[1].stage = "tile"
           /\ error = TileError(faults[1].what)
           /\ DOMAIN layers = {LayerOrder[i] : i \in 1..(idx - 1)}
           /\ LayerOrder[idx] = faults[1].what

\* C8 witness: four layers were returned
C8_Witness == Complete /\ Returned /\ error = None /\ Len(calls) = 4

Absent == IndexNames \ DOMAIN indices
Position(n) == CHOOSE i \in 1..Len(LayerOrder) : LayerOrder[i] = n
FirstAbsent == CHOOSE n \in Absent : \A m \in Absent : Position(n) <= Position(m)

\* C9 as stated: with an index name absent, create_all_layers returns no
\* layer and MissingIndex naming an absent index, whatever the tile
\* generations do.
C9_AlwaysMissingIndex ==
    (Absent # {} /\ Returned) =>
        /\ layers_ret = None
        /\ \E n \in Absent : error = MissingIndexError(n)

\* C9 amended: with an index name absent, create_all_layers returns no
\* layer; the error is MissingIndex naming the first absent index in the
\* order ndvi, lst, uhi, utfvi when every tile generation before it
\* succeeded, and otherwise the tile generation failure of the first index
\* before it whose tile reference could not be had.
C9_MissingIndexOrEarlierTileFailure ==
    (Absent # {} /\ Returned) =>
        /\ layers_ret = None
        /\ faults # <<>>
        /\ \/ /\ faults[1].stage = "layers"
              /\ error = ErrorDict("Missing index",
                                   <<"Index '", FirstAbsent, "' not found in results">>)
              /\ Len(calls) = Position(FirstAbsent) - 1
              /\ DOMAIN layers = {LayerOrder[i] : i \in 1..(Position(FirstAbsent) - 1)}
           \/ /\ faults[1].stage = "tile"
              /\ Position(faults[1].what) < Position(FirstAbsent)
              /\ error = TileError(faults[1].what)

\* C9 witness: the last index is absent and three tile generations
\* succeeded before the call failed
C9_Witness ==
    /\ Absent = {"utfvi"}
    /\ Returned
    /\ Len(calls) = 3
    /\ faults # <<>>
    /\ faults[1].stage = "layers"

Bit(q, k) == (q \div Pow2(k)) % 2

\* C10: mask_clouds leaves a band of a pixel valid exactly when it was
\* valid and bits 3 and 5 of the pixel's QA value are both zero, the same
\* for every band, and changes no value.
C10_ValidIffBits3And5Clear ==
    pc = "masked" =>
        \A b \in Bands :
            /\ masked[b].valid <=> (pixel[b].valid /\ Bit(qa, 3) = 0 /\ Bit(qa, 5) = 0)
            /\ masked[b].value = pixel[b].value

\* C10 witness: a pixel whose QA value has bits 0, 1, 2 and 4 set (and
\* bits 3 and 5 clear) stays valid in every band
C10_Witness ==
    /\ pc = "masked"
    /\ qa = 23
    /\ \A b \in Bands : pixel[b].valid /\ masked[b].valid

\* C11: the display range, palette, name and description of every layer
\* of a response are those fixed for its index, whatever the request's
\* statistics are; the NDVI layer displays on [-1, 1].
C11_DescriptorDependsOnIndexOnly ==
    Responded =>
        /\ outcome.layers["ndvi"].visualization =
             [min |-> [num |-> -1, den |-> 1], max |-> [num |-> 1, den |-> 1],
              palette |-> "NDVI_PALETTE"]
        /\ outcome.layers["lst"].visualization =
             [min |-> [num |-> 7, den |-> 1], max |-> [num |-> 50, den |-> 1],
              palette |-> "LST_PALETTE"]
        /\ outcome.layers["uhi"].visualization =
             [min |-> [num |-> -4, den |-> 1], max |-> [num |-> 4, den |-> 1],
              palette |-> "UHI_PALETTE"]
        /\ outcome.layers["utfvi"].visualization =
             [min |-> [num |-> -1, den |-> 1], max |-> [num |-> 3, den |-> 10],
              palette |-> "UTFVI_PALETTE"]
        /\ outcome.layers["ndvi"].name = "NDVI"
        /\ outcome.layers["lst"].name = "Land Surface Temperature"
        /\ outcome.layers["uhi"].name = "Urban Heat Index"
        /\ outcome.layers["utfvi"].name = "Urban Thermal Field Variance Index"
        /\ \A n \in IndexNames :
             outcome.layers[n].description = get_layer_descriptions[n][2]

\* C11 witness: a response whose NDVI statistics span less than the
\* display range of its NDVI layer
C11_Witness ==
    /\ Responded
    /\ outcome.statistics.ndvi_min = 0
    /\ outcome.statistics.ndvi_max = 1
    /\ outcome.statistics.lst_mean = 30
    /\ outcome.statistics.lst_std = 3
    /\ outcome.layers["ndvi"].visualization.min = Whole(-1)

InComposite == pc \in {"gmc_size", "gmc_median", "gmc_return"}
BadWindow == request.start_date >= request.end_date
UnknownCity == request.city \notin CITIES

\* C15: a request whose window is not start < end, or whose city is not in
\* the registry, issues no engine call (initialization included), never
\* enters get_median_composite, and ends with status 400; whenever
\* get_median_composite runs, start_date is strictly before end_date.
C15_RejectedBeforeEngine ==
    /\ (BadWindow \/ UnknownCity) =>
         /\ calls = <<>>
         /\ ~InComposite
         /\ aoi = NoAoi
         /\ Done => /\ outcome.type = "HTTPException"
                    /\ outcome.status_code = 400
    /\ InComposite => /\ request.start_date < request.end_date
                      /\ request.city \in CITIES
    /\ \A i \in 1..Len(calls) :
         calls[i][1] = "size.getInfo" => request.start_date < request.end_date

\* C15 witness: a registered city with an empty window (start = end) was
\* answered 400 with no engine call issued
C15_Witness ==
    /\ Done
    /\ request.city \in CITIES
    /\ request.start_date = request.end_date
    /\ outcome.type = "HTTPException"
    /\ outcome.status_code = 400
    /\ outcome.detail = <<"start_date must be before end_date">>
    /\ calls = <<>>

ResultsReturned == pc = "pai_return" /\ results.tag = "Some"

\* C12 as stated: whenever process_all_indices returns results, the four
\* statistics in them are defined scalars with ndvi_min <= ndvi_max and
\* lst_std >= 0.
C12_StatisticsDefinedAndOrdered ==
    ResultsReturned =>
        /\ IsNumber(results.ndvi_min) /\ IsNumber(results.ndvi_max)
        /\ IsNumber(results.lst_mean) /\ IsNumber(results.lst_std)
        /\ results.ndvi_min.v <= results.ndvi_max.v
        /\ results.lst_std.v >= 0

Degenerate ==
    /\ IsNumber(stat["ndvi_min"]) /\ IsNumber(stat["ndvi_max"])
    /\ stat["ndvi_min"].v = stat["ndvi_max"].v

\* C13 as stated: when ndvi_min equals ndvi_max no exception leaves the
\* chain, and FV, emissivity and LST, once built, have no valid pixel.
C13_DegenerateIsNoData ==
    Degenerate =>
        /\ outcome.type # "exception"
        /\ img["fv"].tag = "Some" => img["fv"].pix = {} /\ ~img["fv"].valid
        /\ img["em"].tag = "Some" => img["em"].pix = {} /\ ~img["em"].valid
        /\ img["lst"].tag = "Some" => ~img["lst"].valid

NIR == scaled["SR_B5"]
Red == scaled["SR_B4"]

\* the sums of two raw values in 1..MaxDN whose corrected values add up to 0
ZeroSumDNs ==
    {t \in 2..(2 * MaxDN) : t * OPTICAL_BANDS_MULTIPLIER + 2 * OPTICAL_BANDS_OFFSET = 0}

\* C14: on every pair of corrected band values, negative ones included,
\* calculate_ndvi yields no-data or a value between -1 and 1, and no-data
\* where the two values add up to zero (which no two raw values in
\* 1..MaxDN produce).
C14_NdviInRangeOrNoData ==
    pc = "ndvi_done" =>
        /\ nd.valid => /\ nd.value.den > 0
                       /\ -nd.value.den <= nd.value.num
                       /\ nd.value.num <= nd.value.den
        /\ NIR.value + Red.value = 0 => ~nd.valid
        /\ ZeroSumDNs = {}

\* C14 witness: a negative red reflectance under a positive near infrared
\* one, both valid, for which (NIR - Red) / (NIR + Red) would exceed 1,
\* yields no-data
C14_Witness ==
    /\ pc = "ndvi_done"
    /\ NIR.valid /\ Red.valid
    /\ Red.value < 0
    /\ NIR.value + Red.value > 0
    /\ ~nd.valid

====
